---- MODULE Spec2Model ----
(***************************************************************************)
(* PyODHeaN: the JSON interface (pyodhean/interface.py) and the model      *)
(* class (pyodhean/model.py) as a state machine.                           *)
(*                                                                         *)
(* One call is followed from its entry point to its return or to the       *)
(* exception that leaves it.  Three entry points exist: JSONInterface.solve *)
(* (entry "json"), the Model class used directly as tests/test_model.py    *)
(* and examples/NLP_P1k2C2.py do (entry "model"), and the static method    *)
(* JSONInterface._parse_result (entry "parse").                             *)
(*                                                                         *)
(* Numbers: every quantity is an integer multiple of a grid unit.  Mass    *)
(* flows are counted in units of pi/4 * (unit of rho) * (unit of speed) *  *)
(* (unit of diameter)^2, so that V * rho * pi * Dint^2 / 4 is the integer  *)
(* V * rho * Dint * Dint; M_max and M_bigM are in the same unit, which     *)
(* leaves every inequality between flows unchanged.                        *)
(*                                                                         *)
(* pyomo's Set, Param, Var and Constraint are taken by their documented    *)
(* meaning: a Param holds the table it is initialised with, a Var ranges   *)
(* over its bounds, a Constraint restricts the assignments the solver may   *)
(* return as a solution.                                                   *)
(***************************************************************************)
EXTENDS Integers, Sequences, FiniteSets, TLC

VARIABLES
    options,      \* JSONInterface.options, set by the constructor
    entry,        \* entry point of the call in progress
    pc,           \* position of the call
    json_input,   \* argument of JSONInterface.solve
    problem,      \* value returned by _define_problem / kwargs given to Model
    model,        \* the assembled Model instance (its Sets and Params)
    solver,       \* what the external solver did with the model
    asg,          \* solver's assignment, seen at one pipe
    result,       \* value held in `result` / returned to the caller
    error,        \* exception that left the call, if any
    trace,        \* steps of the call executed so far, in order
    solverCalls   \* number of invocations of the external solver in this call

vars == <<options, entry, pc, json_input, problem, model, solver, asg,
          result, error, trace, solverCalls>>

-----------------------------------------------------------------------------
(* Bounds of the model *)

\* longest link list of a JSON input
MaxLinks == 2
\* V_max a caller passes in general_parameters (grid units)
MaxSpeed == 2
\* Dint_max a caller passes in general_parameters (grid units)
MaxDiam == 3
\* largest mass flow of the sampled node balances (flow units)
MaxFlow == 2
\* number of temperature steps of the sampled exchanger temperatures
MaxTempSteps == 2
\* largest value of a sampled cost term (cost units)
MaxCost == 1

-----------------------------------------------------------------------------
(* Python values *)

None == [py |-> "None"]
NoError == [type |-> "none", msg |-> "", stage |-> "none"]
PyError(type, msg, stage) == [type |-> type, msg |-> msg, stage |-> stage]

EmptyDict == <<>>

\* values of the variables before the step that sets them
NoModel == [built |-> FALSE]
NoSolver == [status |-> "none"]
NoAsg == [kind |-> "none"]
NoInput == [py |-> "None"]

\* d[k] = v
Put(d, k, v) == [x \in (DOMAIN d) \cup {k} |-> IF x = k THEN v ELSE d[x]]

\* d.setdefault(k, v): never touches a key that is present
SetDefault_Overwrite(d, k, v) == Put(d, k, v)

SetDefault(d, k, v) == IF k \in DOMAIN d THEN d ELSE Put(d, k, v)

\* a JSON number: its value and whether it is written as a float
Float(n) == [v |-> n, float |-> TRUE]

\* '{}'.format(number)
NumStr(x) == IF x.float THEN ToString(x.v) \o ".0" ELSE ToString(x.v)

\* interface.py _id2str
Id2Str(coords) == NumStr(coords[1]) \o "_" \o NumStr(coords[2])

-----------------------------------------------------------------------------
(* JSON inputs: the fixture of tests/conftest.py and variations of it *)

IdP == <<Float(0), Float(0)>>
IdC1 == <<Float(2), Float(5)>>
IdC2 == <<Float(30), Float(50)>>

NodeIds == {IdP, IdC1, IdC2}

\* interface.py _str2id: split on '_' and float() each part
Str2Id(s) == CHOOSE c \in NodeIds : Id2Str(c) = s

\* efficiencies in percent, unit costs in 1/100 euro, rates in percent
JsonTechnologies ==
    [k1 |-> [efficiency |-> 90, t_out_max |-> 100, t_in_min |-> 30,
             production_unitary_cost |-> 800, energy_unitary_cost |-> 8,
             energy_cost_inflation_rate |-> 4, coverage_rate |-> 80],
     k2 |-> [efficiency |-> 90, t_out_max |-> 100, t_in_min |-> 30,
             production_unitary_cost |-> 1000, energy_unitary_cost |-> 8,
             energy_cost_inflation_rate |-> 4]]

JsonProductionNodes == <<[id |-> IdP, technologies |-> JsonTechnologies]>>

\* a second production node whose technology k1 has its own efficiency
JsonTwoProducers ==
    Append(JsonProductionNodes,
           [id |-> IdC2,
            technologies |->
                [k1 |-> [JsonTechnologies.k1 EXCEPT !.efficiency = 80]]])

JsonConsumer(id) == [id |-> id, kW |-> 80, t_in |-> 60, t_out |-> 80]

JsonConsumptionLists ==
    {<<JsonConsumer(IdC1), JsonConsumer(IdC2)>>, <<JsonConsumer(IdC1)>>}

JsonLinks == [length : {0, 10}, source : NodeIds, target : NodeIds]

SeqsUpTo(S, n) == UNION {[1..m -> S] : m \in 0..n}

JsonLinkLists == SeqsUpTo(JsonLinks, MaxLinks)

JsonParameters == [diameter_int_max |-> 20, speed_max |-> 25]

JsonInputs ==
    {[nodes |-> [production |-> JsonProductionNodes, consumption |-> c],
      links |-> l] : c \in JsonConsumptionLists, l \in JsonLinkLists}
    \cup
    {[nodes |-> [production |-> JsonProductionNodes, consumption |-> c],
      links |-> l, parameters |-> JsonParameters] :
        c \in JsonConsumptionLists, l \in SeqsUpTo(JsonLinks, 1)}
    \cup
    {[nodes |-> [production |-> JsonTwoProducers,
                 consumption |-> <<JsonConsumer(IdC1)>>],
      links |-> l] : l \in JsonLinkLists}

OptionSets == {[tol |-> "1e-3"], [tol |-> "1e-3", max_iter |-> 2]}

-----------------------------------------------------------------------------
(* JSONInterface._define_problem *)

\* techno.get('coverage_rate')
GetCoverage(techno) ==
    IF "coverage_rate" \in DOMAIN techno THEN techno.coverage_rate ELSE None

DefineTechnologies(technologies) ==
    [name \in DOMAIN technologies |->
        [Eff |-> technologies[name].efficiency,
         T_prod_out_max |-> technologies[name].t_out_max,
         T_prod_in_min |-> technologies[name].t_in_min,
         C_Hprod_unit |-> technologies[name].production_unitary_cost,
         C_heat_unit |-> technologies[name].energy_unitary_cost,
         rate_i |-> technologies[name].energy_cost_inflation_rate,
         coverage_rate |-> GetCoverage(technologies[name])]]

RECURSIVE DefineProduction(_, _)
DefineProduction(nodes, production) ==
    IF nodes = <<>> THEN production
    ELSE DefineProduction(
            Tail(nodes),
            Put(production, Id2Str(Head(nodes).id),
                [technologies |-> DefineTechnologies(Head(nodes).technologies)]))

RECURSIVE DefineConsumption(_, _)
DefineConsumption(nodes, consumption) ==
    IF nodes = <<>> THEN consumption
    ELSE DefineConsumption(
            Tail(nodes),
            Put(consumption, Id2Str(Head(nodes).id),
                [H_req |-> Head(nodes).kW,
                 T_req_out |-> Head(nodes).t_out,
                 T_req_in |-> Head(nodes).t_in]))

\* the branch a link takes in the loop over json_input['links']
LinkBranch_SourceUnchecked(src, production, consumption) ==
    IF src \in DOMAIN production THEN "prod_cons" ELSE "cons_cons"

LinkBranch(src, production, consumption) ==
    IF src \in DOMAIN production THEN "prod_cons"
    ELSE IF src \in DOMAIN consumption THEN "cons_cons"
    ELSE "raise"

RECURSIVE DefineLinks(_, _, _, _, _)
DefineLinks(links, production, consumption, prod_cons_pipes, cons_cons_pipes) ==
    IF links = <<>>
    THEN [error |-> NoError,
          prod_cons_pipes |-> prod_cons_pipes,
          cons_cons_pipes |-> cons_cons_pipes]
    ELSE LET link == Head(links)
             src == Id2Str(link.source)
             trg == Id2Str(link.target)
             branch == LinkBranch(src, production, consumption)
         IN  IF branch = "prod_cons"
             THEN DefineLinks(Tail(links), production, consumption,
                              Put(prod_cons_pipes, <<src, trg>>, link.length),
                              cons_cons_pipes)
             ELSE IF branch = "cons_cons"
             THEN DefineLinks(Tail(links), production, consumption,
                              prod_cons_pipes,
                              Put(cons_cons_pipes, <<src, trg>>, link.length))
             ELSE [error |-> PyError("ValueError", "Link with unknown source.", "define"),
                   prod_cons_pipes |-> prod_cons_pipes,
                   cons_cons_pipes |-> cons_cons_pipes]

\* d.setdefault(k, 0) for every k of keys
RECURSIVE SetDefaults(_, _)
SetDefaults(d, keys) ==
    IF keys = {} THEN d
    ELSE LET k == CHOOSE x \in keys : TRUE
         IN  SetDefaults(SetDefault(d, k, 0), keys \ {k})

\* json_input.get('parameters', {})
GetParameters(input) ==
    IF "parameters" \in DOMAIN input THEN input.parameters ELSE EmptyDict

\* the value _define_problem returns, or the exception it raises
DefineProblem(input) ==
    LET production == DefineProduction(input.nodes.production, EmptyDict)
        consumption == DefineConsumption(input.nodes.consumption, EmptyDict)
        linked == DefineLinks(input.links, production, consumption,
                              EmptyDict, EmptyDict)
        prod_cons_pipes ==
            SetDefaults(linked.prod_cons_pipes,
                        (DOMAIN production) \X (DOMAIN consumption))
        cons_cons_pipes ==
            SetDefaults(linked.cons_cons_pipes,
                        (DOMAIN consumption) \X (DOMAIN consumption))
    IN  IF linked.error # NoError
        THEN [error |-> linked.error, value |-> None]
        ELSE [error |-> NoError,
              value |-> [production |-> production,
                         consumption |-> consumption,
                         configuration |->
                            [prod_cons_pipes |-> prod_cons_pipes,
                             cons_cons_pipes |-> cons_cons_pipes],
                         general_parameters |-> GetParameters(input)]]

-----------------------------------------------------------------------------
(* Arguments of direct users of the Model class *)

\* efficiencies in percent, unit costs in 1/100 euro, rates in 1/10 percent
ModelTechnologies ==
    [k1 |-> [C_Hprod_unit |-> 800, C_heat_unit |-> 3, Eff |-> 80, rate_i |-> 15,
             T_prod_out_max |-> 100, T_prod_in_min |-> 30, coverage_rate |-> 80],
     k2 |-> [C_Hprod_unit |-> 1000, C_heat_unit |-> 8, Eff |-> 90, rate_i |-> 40,
             T_prod_out_max |-> 100, T_prod_in_min |-> 30, coverage_rate |-> None]]

ModelConsumer == [H_req |-> 80, T_req_out |-> 80, T_req_in |-> 60]

\* the call of tests/test_model.py and examples/NLP_P1k2C2.py
TestModelKwargs ==
    [production |-> [P1 |-> [technologies |-> ModelTechnologies]],
     consumption |-> [C1 |-> ModelConsumer, C2 |-> ModelConsumer],
     configuration |->
        [prod_cons_pipes |-> (<<"P1", "C1">> :> 10) @@ (<<"P1", "C2">> :> 0),
         cons_cons_pipes |-> (<<"C1", "C1">> :> 0) @@ (<<"C1", "C2">> :> 100) @@
                             (<<"C2", "C1">> :> 0) @@ (<<"C2", "C2">> :> 0)]]

\* the keys def_problem reads from general_parameters, in the order it reads them
GeneralParameterKeys ==
    <<"C_tr_unit", "period", "depreciation_period", "rate_i_pump", "Eff_pump",
      "T_hx_pinch", "K_hx", "Cp", "C_pump_unit", "mu", "rho", "alpha", "beta",
      "C_pipe_unit_a", "C_pipe_unit_b", "C_hx_unit_a", "C_hx_unit_b", "rate_a",
      "T_ext", "lambda_insul", "lambda_soil", "z_pipe", "epsilon", "tk_insul",
      "tk_pipe", "DP_hx_unit", "V_min", "V_max", "P_min", "P_max", "Dint_max",
      "Dint_min", "Dist_max_autorisee">>

\* a complete general_parameters mapping, in grid units (exchanger areas are
\* counted in the unit that makes K_hx = 1)
GeneralParameters(V_max, Dint_max) ==
    [C_tr_unit |-> 800, period |-> 5808, depreciation_period |-> 15,
     rate_i_pump |-> 4, Eff_pump |-> 70, T_hx_pinch |-> 5, K_hx |-> 1,
     Cp |-> 2, C_pump_unit |-> 11, mu |-> 1, rho |-> 1, alpha |-> 2,
     beta |-> -1, C_pipe_unit_a |-> 1, C_pipe_unit_b |-> 12,
     C_hx_unit_a |-> 5, C_hx_unit_b |-> 5045, rate_a |-> 4, T_ext |-> 15,
     lambda_insul |-> 3, lambda_soil |-> 140, z_pipe |-> 40, epsilon |-> 0,
     tk_insul |-> 1, tk_pipe |-> 1, DP_hx_unit |-> 20, V_min |-> 1,
     V_max |-> V_max, P_min |-> 120, P_max |-> 500, Dint_max |-> Dint_max,
     Dint_min |-> 1, Dist_max_autorisee |-> 1000]

\* values a caller writes in a pipe table: no pipe, a unit entry, a length
PipeEntries == {0, 1, 10}

ProdConsTables == [{"P1"} \X {"C1", "C2"} -> PipeEntries]

ConsConsTables ==
    {t \in [{"C1", "C2"} \X {"C1", "C2"} -> PipeEntries] :
        t[<<"C1", "C1">>] \in {0, 1} /\ t[<<"C2", "C2">>] = 0}

FullModelKwargs ==
    {[general_parameters |-> GeneralParameters(MaxSpeed, MaxDiam),
      technologies |-> ModelTechnologies,
      production |-> [P1 |-> [x |-> 0, y |-> 0]],
      consumption |-> [C1 |-> ModelConsumer @@ [x |-> 2, y |-> 5],
                       C2 |-> [ModelConsumer EXCEPT !.H_req = H_req_C2]
                              @@ [x |-> 30, y |-> 50]],
      configuration |->
         [technos_per_prod |-> (<<"P1", "k1">> :> 1) @@ (<<"P1", "k2">> :> 1),
          prod_cons_pipes |-> pc_t,
          cons_cons_pipes |-> cc_t]] :
        pc_t \in ProdConsTables, cc_t \in ConsConsTables,
        H_req_C2 \in {ModelConsumer.H_req, 0}}

\* defaults.py DEFAULT_PARAMETERS, in grid units
DEFAULT_PARAMETERS == GeneralParameters(MaxSpeed, MaxDiam)

\* calls with a partial general_parameters, without a technology at the
\* producer, with technologies of different limits, with a consumer whose
\* secondary inlet is cold, without technologies or without consumers
VariantModelKwargs ==
    LET base ==
            [general_parameters |-> DEFAULT_PARAMETERS,
             technologies |-> ModelTechnologies,
             production |-> [P1 |-> [x |-> 0, y |-> 0]],
             consumption |-> [C1 |-> ModelConsumer @@ [x |-> 2, y |-> 5],
                              C2 |-> ModelConsumer @@ [x |-> 30, y |-> 50]],
             configuration |->
                [technos_per_prod |->
                    (<<"P1", "k1">> :> 1) @@ (<<"P1", "k2">> :> 1),
                 prod_cons_pipes |->
                    (<<"P1", "C1">> :> 1) @@ (<<"P1", "C2">> :> 0),
                 cons_cons_pipes |->
                    (<<"C1", "C1">> :> 0) @@ (<<"C1", "C2">> :> 1) @@
                    (<<"C2", "C1">> :> 0) @@ (<<"C2", "C2">> :> 0)]]
        \* technology k2 absent from P1, with or without limits of its own
        one_technology ==
            [base EXCEPT !.configuration.technos_per_prod[<<"P1", "k2">>] = 0]
        own_limits ==
            [technologies |->
                [ModelTechnologies EXCEPT !.k2.T_prod_out_max = 90,
                                          !.k2.T_prod_in_min = 40,
                                          !.k2.Eff = 80]]
        \* the secondary side of C2 comes back below 0 degrees
        cold_inlet == [base EXCEPT !.consumption.C2.T_req_in = -10]
        no_technologies ==
            [base EXCEPT !.technologies = EmptyDict,
                         !.configuration.technos_per_prod = EmptyDict]
        no_consumption ==
            [base EXCEPT !.consumption = EmptyDict,
                         !.configuration.prod_cons_pipes = EmptyDict,
                         !.configuration.cons_cons_pipes = EmptyDict]
    IN  {[base EXCEPT !.general_parameters = override] :
            override \in {EmptyDict, [V_max |-> MaxSpeed],
                          [V_max |-> MaxSpeed, Dint_max |-> MaxDiam]}}
        \cup {one_technology, own_limits @@ base, own_limits @@ one_technology,
              cold_inlet}
        \cup {no_technologies, no_consumption,
              [no_technologies EXCEPT !.consumption = EmptyDict,
                                      !.configuration.prod_cons_pipes = EmptyDict,
                                      !.configuration.cons_cons_pipes = EmptyDict]}

ModelKwargs == {TestModelKwargs} \cup FullModelKwargs \cup VariantModelKwargs

-----------------------------------------------------------------------------
(* utils.pluck *)

PluckFails(parameters, key) ==
    \E k \in DOMAIN parameters : key \notin DOMAIN parameters[k]

Pluck(parameters, key) == [k \in DOMAIN parameters |-> parameters[k][key]]

KeyError(key, stage) == PyError("KeyError", key, stage)

\* the first key of keys (a sequence) for which pluck raises, or "" if none
RECURSIVE FirstPluckFailure(_, _)
FirstPluckFailure(parameters, keys) ==
    IF keys = <<>> THEN ""
    ELSE IF PluckFails(parameters, Head(keys)) THEN Head(keys)
    ELSE FirstPluckFailure(parameters, Tail(keys))

PluckAll(parameters, keys) ==
    LET bad == FirstPluckFailure(parameters, keys)
    IN  IF bad = "" THEN NoError ELSE KeyError(bad, "assemble")

\* max() / min() of a Python generator over a set of integers
Max(S) == CHOOSE x \in S : \A y \in S : y <= x
Min(S) == CHOOSE x \in S : \A y \in S : x <= y

Range(f) == {f[x] : x \in DOMAIN f}

RECURSIVE SumOver(_, _)
SumOver(f, S) ==
    IF S = {} THEN 0
    ELSE LET x == CHOOSE y \in S : TRUE IN f[x] + SumOver(f, S \ {x})

-----------------------------------------------------------------------------
(* Model.__init__ *)

\* binding of the keyword arguments to the parameters of __init__
ModelInitParameters ==
    {"general_parameters", "technologies", "production", "consumption",
     "configuration"}

BindArguments(kwargs) ==
    IF (DOMAIN kwargs) \ ModelInitParameters # {}
    THEN PyError("TypeError", "__init__() got an unexpected keyword argument", "assemble")
    ELSE IF ModelInitParameters \ (DOMAIN kwargs) # {}
    THEN PyError("TypeError", "__init__() missing required positional arguments", "assemble")
    ELSE NoError

def_technologies_error(technologies) ==
    PluckAll(technologies,
             <<"C_Hprod_unit", "C_heat_unit", "Eff", "rate_i",
               "T_prod_out_max", "T_prod_in_min">>)

def_technologies(technologies) ==
    [k |-> DOMAIN technologies,
     C_Hprod_unit |-> Pluck(technologies, "C_Hprod_unit"),
     C_heat_unit |-> Pluck(technologies, "C_heat_unit"),
     Eff |-> Pluck(technologies, "Eff"),
     rate_i |-> Pluck(technologies, "rate_i"),
     T_prod_out_max |-> Pluck(technologies, "T_prod_out_max"),
     T_prod_in_min |-> Pluck(technologies, "T_prod_in_min")]

def_production_error(production) == PluckAll(production, <<"x", "y">>)

def_production(production) ==
    [i |-> DOMAIN production,
     x_P |-> Pluck(production, "x"),
     z_P |-> Pluck(production, "y")]

def_consumption_error(consumption) ==
    PluckAll(consumption, <<"x", "y", "H_req", "T_req_out", "T_req_in">>)

def_consumption(consumption) ==
    [j |-> DOMAIN consumption,
     o |-> DOMAIN consumption,
     x_C |-> Pluck(consumption, "x"),
     z_C |-> Pluck(consumption, "y"),
     H_req |-> Pluck(consumption, "H_req"),
     T_req_out |-> Pluck(consumption, "T_req_out"),
     T_req_in |-> Pluck(consumption, "T_req_in")]

\* {(b, a): e for (a, b), e in table.items()}
Transpose(table) ==
    [key \in {<<x[2], x[1]>> : x \in DOMAIN table} |-> table[<<key[2], key[1]>>]]

\* the existence table def_configuration derives from a pipe table
ExistenceTable(table) == table

\* the first key of keys (a sequence) that mapping lacks, or "" if none
RECURSIVE FirstMissing(_, _)
FirstMissing(mapping, keys) ==
    IF keys = <<>> THEN ""
    ELSE IF Head(keys) \notin DOMAIN mapping THEN Head(keys)
    ELSE FirstMissing(mapping, Tail(keys))

def_configuration_error(configuration) ==
    LET bad == FirstMissing(configuration,
                   <<"technos_per_prod", "prod_cons_pipes", "cons_cons_pipes">>)
    IN  IF bad = "" THEN NoError ELSE KeyError(bad, "assemble")

def_configuration(configuration) ==
    LET table_Y_linePC == ExistenceTable(configuration.prod_cons_pipes)
        table_Y_lineCP == Transpose(table_Y_linePC)
        table_Y_lineCC_parallel == ExistenceTable(configuration.cons_cons_pipes)
        table_Y_lineCC_return == Transpose(table_Y_lineCC_parallel)
    IN  [Y_P |-> configuration.technos_per_prod,
         Y_linePC |-> table_Y_linePC,
         Y_lineCP |-> table_Y_lineCP,
         Y_lineCC_parallel |-> table_Y_lineCC_parallel,
         Y_lineCC_return |-> table_Y_lineCC_return]

\* the aggregates over k and j evaluated only once the solver runs
def_problem_error_AtSolve(parts, general_parameters) ==
    IF parts.k = {} \/ parts.j = {}
    THEN PyError("ValueError", "max() arg is an empty sequence", "solve")
    ELSE LET bad == FirstMissing(general_parameters, GeneralParameterKeys)
         IN  IF bad # "" THEN KeyError(bad, "assemble") ELSE NoError

\* max(T_prod_out_max[k] for k in k), first statement of def_problem
def_problem_error(parts, general_parameters) ==
    IF parts.k = {}
    THEN PyError("ValueError", "max() arg is an empty sequence", "assemble")
    ELSE LET bad == FirstMissing(general_parameters, GeneralParameterKeys)
         IN  IF bad # "" THEN KeyError(bad, "assemble")
             ELSE IF parts.j = {}
             THEN PyError("ValueError", "min() arg is an empty sequence", "assemble")
             ELSE NoError

calcul_M_max(V_max, rho, Dint_max) == V_max * rho * (Dint_max * Dint_max)

calcul_M_bigM(M_max) == 1000 * M_max

calcul_Dout_max(Dint_max, tk_insul, tk_pipe) == Dint_max + tk_insul + tk_pipe

calcul_Dout_min(Dint_min, tk_insul, tk_pipe) == Dint_min + tk_insul + tk_pipe

calcul_T_init_min(parts) ==
    Min({Min(Range(parts.T_prod_in_min)), Min(Range(parts.T_req_in))})

calcul_T_init_max(parts) ==
    Max({Max(Range(parts.T_prod_out_max)), Max(Range(parts.T_req_out))})

\* the length tables written in def_problem
table_L_PC == (<<"P1", "C1">> :> 10) @@ (<<"P1", "C2">> :> 0)

table_L_CP == (<<"C1", "P1">> :> 10) @@ (<<"C2", "P1">> :> 0)

table_L_CC_parallel ==
    (<<"C1", "C1">> :> 0) @@ (<<"C1", "C2">> :> 100) @@
    (<<"C2", "C1">> :> 0) @@ (<<"C2", "C2">> :> 0)

table_L_CC_return ==
    (<<"C1", "C1">> :> 0) @@ (<<"C1", "C2">> :> 0) @@
    (<<"C2", "C1">> :> 100) @@ (<<"C2", "C2">> :> 0)

LengthTables(configuration) ==
    [L_PC |-> table_L_PC,
     L_CP |-> table_L_CP,
     L_CC_parallel |-> table_L_CC_parallel,
     L_CC_return |-> table_L_CC_return]

def_problem(parts, general_parameters, configuration) ==
    LET H_req_max == SumOver(parts.H_req, parts.j)
        M_max == calcul_M_max(general_parameters.V_max, general_parameters.rho,
                              general_parameters.Dint_max)
    IN  [p \in {GeneralParameterKeys[n] : n \in DOMAIN GeneralParameterKeys} |->
            general_parameters[p]]
        @@ [H_inst_max |-> (3 * H_req_max) \div 2,
            H_inst_bigM |-> 1000 * H_req_max,
            M_max |-> M_max,
            M_min |-> 0,
            M_bigM |-> calcul_M_bigM(M_max),
            T_bigM |-> Max(Range(parts.T_prod_out_max)),
            Dout_max |-> calcul_Dout_max(general_parameters.Dint_max,
                                         general_parameters.tk_insul,
                                         general_parameters.tk_pipe),
            Dout_min |-> calcul_Dout_min(general_parameters.Dint_min,
                                         general_parameters.tk_insul,
                                         general_parameters.tk_pipe),
            T_init_min |-> calcul_T_init_min(parts),
            T_init_max |-> calcul_T_init_max(parts)]
        @@ LengthTables(configuration)

Raised(err) == [error |-> err, value |-> None]

\* Model(**kwargs): the instance, or the exception __init__ raises
ModelInit(kwargs) ==
    LET e0 == BindArguments(kwargs)
        e1 == def_technologies_error(kwargs.technologies)
        e2 == def_production_error(kwargs.production)
        e3 == def_consumption_error(kwargs.consumption)
        e4 == def_configuration_error(kwargs.configuration)
        parts == def_technologies(kwargs.technologies)
                 @@ def_production(kwargs.production)
                 @@ def_consumption(kwargs.consumption)
                 @@ def_configuration(kwargs.configuration)
        e5 == def_problem_error(parts, kwargs.general_parameters)
    IN  IF e0 # NoError THEN Raised(e0)
        ELSE IF e1 # NoError THEN Raised(e1)
        ELSE IF e2 # NoError THEN Raised(e2)
        ELSE IF e3 # NoError THEN Raised(e3)
        ELSE IF e4 # NoError THEN Raised(e4)
        ELSE IF e5 # NoError THEN Raised(e5)
        ELSE [error |-> NoError,
              value |-> [built |-> TRUE] @@ parts
                        @@ def_problem(parts, kwargs.general_parameters,
                                       kwargs.configuration)]

-----------------------------------------------------------------------------
(* Variables and constraints of one pipe.  A pipe assignment a has the      *)
(* fields family, index, V, Dint, Dout, M: the values of V_line*, Dint_*,  *)
(* Dout_* and M_line* at one index of one of the four families.            *)

Families == {"PC", "CP", "CC_parallel", "CC_return"}

\* the index set of the Vars and Constraints of each family
PipeIndex(m, family) ==
    CASE family = "PC" -> m.i \X m.j
      [] family = "CP" -> m.j \X m.i
      [] family = "CC_parallel" -> m.j \X m.o
      [] family = "CC_return" -> m.o \X m.j

\* the existence Param each family's constraints read
Y_line(m, family) ==
    CASE family = "PC" -> m.Y_linePC
      [] family = "CP" -> m.Y_lineCP
      [] family = "CC_parallel" -> m.Y_lineCC_parallel
      [] family = "CC_return" -> m.Y_lineCC_return

\* bounds=(0, V_max), bounds=(Dint_min, Dint_max), bounds=(M_min, M_max)
V_line_bounds(m) == 0 .. m.V_max
Dint_bounds(m) == m.Dint_min .. m.Dint_max
\* the Dout_* Vars are declared with the bounds of the Dint_* Vars
Dout_bounds(m) == m.Dint_min .. m.Dint_max
M_line_bounds(m) == m.M_min .. m.M_max

\* V * rho * pi * Dint * Dint / 4, in flow units
SectionFlow(m, V, Dint) == V * (m.rho * Dint * Dint)

\* - bigM * (1 - Y) <= valeur <= bigM * (1 - Y)
BigMRange_NoGate(valeur, bigM, Y) == (- bigM <= valeur) /\ (valeur <= bigM)

BigMRange(valeur, bigM, Y) ==
    (- bigM * (1 - Y) <= valeur) /\ (valeur <= bigM * (1 - Y))

Def_V_linePC_rule_bigM(m, a) ==
    BigMRange(SectionFlow(m, a.V, a.Dint) - a.M, m.M_bigM, m.Y_linePC[a.index])

Def_V_lineCP_rule_bigM(m, a) ==
    BigMRange(SectionFlow(m, a.V, a.Dint) - a.M, m.M_bigM, m.Y_lineCP[a.index])

Def_V_lineCC_parallel_rule_bigM(m, a) ==
    BigMRange(SectionFlow(m, a.V, a.Dint) - a.M, m.M_bigM,
              m.Y_lineCC_parallel[a.index])

Def_V_lineCC_return_rule_bigM(m, a) ==
    BigMRange(SectionFlow(m, a.V, a.Dint) - a.M, m.M_bigM,
              m.Y_lineCC_return[a.index])

\* V <= V_max * Y
Ex_V_max_rule(V, V_max, Y) == V <= V_max * Y
\* V >= V_min * Y
Ex_V_min_rule_NoFloor(V, V_min, Y) == V >= 0

Ex_V_min_rule(V, V_min, Y) == V >= V_min * Y
\* M <= M_max * Y
Ex_M_max_rule_NoGate(M, M_max, Y) == M <= M_max

Ex_M_max_rule(M, M_max, Y) == M <= M_max * Y

Ex_V_linePC_max_rule(m, a) == Ex_V_max_rule(a.V, m.V_max, m.Y_linePC[a.index])
Ex_V_linePC_min_rule(m, a) == Ex_V_min_rule(a.V, m.V_min, m.Y_linePC[a.index])
Ex_V_lineCP_max_rule(m, a) == Ex_V_max_rule(a.V, m.V_max, m.Y_lineCP[a.index])
Ex_V_lineCP_min_rule(m, a) == Ex_V_min_rule(a.V, m.V_min, m.Y_lineCP[a.index])
Ex_V_lineCC_parallel_max_rule(m, a) ==
    Ex_V_max_rule(a.V, m.V_max, m.Y_lineCC_parallel[a.index])
Ex_V_lineCC_parallel_min_rule(m, a) ==
    Ex_V_min_rule(a.V, m.V_min, m.Y_lineCC_parallel[a.index])
Ex_V_lineCC_return_max_rule(m, a) ==
    Ex_V_max_rule(a.V, m.V_max, m.Y_lineCC_return[a.index])
Ex_V_lineCC_return_min_rule(m, a) ==
    Ex_V_min_rule(a.V, m.V_min, m.Y_lineCC_return[a.index])

Ex_M_linePC_max_rule(m, a) == Ex_M_max_rule(a.M, m.M_max, m.Y_linePC[a.index])
Ex_M_lineCP_max_rule(m, a) == Ex_M_max_rule(a.M, m.M_max, m.Y_lineCP[a.index])
Ex_M_lineCC_parallel_max_rule(m, a) ==
    Ex_M_max_rule(a.M, m.M_max, m.Y_lineCC_parallel[a.index])
Ex_M_lineCC_return_max_rule(m, a) ==
    Ex_M_max_rule(a.M, m.M_max, m.Y_lineCC_return[a.index])

\* Dout == Dint + tk_pipe + tk_insul
Def_Dout_rule_NoWall(m, a) == a.Dout = a.Dint + m.tk_insul

Def_Dout_rule(m, a) == a.Dout = a.Dint + m.tk_pipe + m.tk_insul

\* the big-M inequality of the family of pipe a
Def_V_line_rule_bigM(m, a) ==
    CASE a.family = "PC" -> Def_V_linePC_rule_bigM(m, a)
      [] a.family = "CP" -> Def_V_lineCP_rule_bigM(m, a)
      [] a.family = "CC_parallel" -> Def_V_lineCC_parallel_rule_bigM(m, a)
      [] a.family = "CC_return" -> Def_V_lineCC_return_rule_bigM(m, a)

\* every constraint of the model in which the variables of pipe a occur alone
PipeConstraints(m, a) ==
    CASE a.family = "PC" ->
            /\ Def_V_linePC_rule_bigM(m, a)
            /\ Ex_V_linePC_max_rule(m, a)
            /\ Ex_V_linePC_min_rule(m, a)
            /\ Ex_M_linePC_max_rule(m, a)
            /\ Def_Dout_rule(m, a)
      [] a.family = "CP" ->
            /\ Def_V_lineCP_rule_bigM(m, a)
            /\ Ex_V_lineCP_max_rule(m, a)
            /\ Ex_V_lineCP_min_rule(m, a)
            /\ Ex_M_lineCP_max_rule(m, a)
            /\ Def_Dout_rule(m, a)
      [] a.family = "CC_parallel" ->
            /\ Def_V_lineCC_parallel_rule_bigM(m, a)
            /\ Ex_V_lineCC_parallel_max_rule(m, a)
            /\ Ex_V_lineCC_parallel_min_rule(m, a)
            /\ Ex_M_lineCC_parallel_max_rule(m, a)
            /\ Def_Dout_rule(m, a)
      [] a.family = "CC_return" ->
            /\ Def_V_lineCC_return_rule_bigM(m, a)
            /\ Ex_V_lineCC_return_max_rule(m, a)
            /\ Ex_V_lineCC_return_min_rule(m, a)
            /\ Ex_M_lineCC_return_max_rule(m, a)
            /\ Def_Dout_rule(m, a)

\* the values of one pipe's variables within their bounds
PipeValues(m, family, index) ==
    [kind : {"pipe"}, family : {family}, index : {index},
     V : V_line_bounds(m), Dint : Dint_bounds(m), Dout : Dout_bounds(m),
     M : M_line_bounds(m)]

\* the values of one pipe's variables the solver may return: those of
\* PipeValues that satisfy PipeConstraints, taking first the diameters that
\* satisfy Def_Dout and the flows that satisfy the two upper existence rules
PipeSolutions(m, family, index) ==
    LET Y == Y_line(m, family)[index]
        Diameters ==
            {d \in [kind : {"pipe"}, family : {family}, index : {index},
                    Dint : Dint_bounds(m), Dout : Dout_bounds(m)] :
                Def_Dout_rule(m, d)}
        Flows ==
            {f \in [V : V_line_bounds(m), M : M_line_bounds(m)] :
                Ex_V_max_rule(f.V, m.V_max, Y) /\ Ex_M_max_rule(f.M, m.M_max, Y)}
    IN  {a \in {d @@ f : d \in Diameters, f \in Flows} : PipeConstraints(m, a)}

AllPipeSolutions(m) ==
    UNION {PipeSolutions(m, pipe[1], pipe[2]) :
            pipe \in {x \in Families \X ((m.i \cup m.j) \X (m.i \cup m.j)) :
                        x[2] \in PipeIndex(m, x[1])}}

\* no assignment exists unless every pipe has one
PipesFeasible(m) ==
    \A family \in Families : \A index \in PipeIndex(m, family) :
        PipeSolutions(m, family, index) # {}

-----------------------------------------------------------------------------
(* Mass balances.  A supply assignment holds the flows of the supply side  *)
(* of consumer j: M_linePC[i, j], M_lineCC_in[o] = M_lineCC_parallel[o, j],*)
(* M_lineCC_out[o] = M_lineCC_parallel[j, o] for o # j, M_supply[j] and    *)
(* M_hx[j].  A return assignment holds those of the return side:           *)
(* M_lineCP[j, i], M_lineCC_in[o] = M_lineCC_return[o, j], M_lineCC_out[o] *)
(* = M_lineCC_return[j, o], M_return[j] and M_hx[j].  A producer           *)
(* assignment holds M_prod[i, k] and M_prod_tot[i].                        *)

\* the sampled values of a flow Var, inside bounds=(M_min, M_max)
FlowGrid(m) == m.M_min .. Min({MaxFlow, m.M_max})

bilanA_debit_supply_rule(m, a) ==
    a.M_supply = SumOver(a.M_linePC, m.i) + SumOver(a.M_lineCC_in, m.o \ {a.j})

bilanB_debit_hx_in_rule_NoExchanger(m, a) ==
    a.M_supply = SumOver(a.M_lineCC_out, m.o \ {a.j})

bilanB_debit_hx_in_rule(m, a) ==
    a.M_supply = a.M_hx + SumOver(a.M_lineCC_out, m.o \ {a.j})

bilanD_debit_hx_out_rule(m, a) ==
    a.M_return = a.M_hx + SumOver(a.M_lineCC_in, m.o \ {a.j})

bilanE_debit_return_rule(m, a) ==
    a.M_return = SumOver(a.M_lineCP, m.i) + SumOver(a.M_lineCC_out, m.o \ {a.j})

bilanGH_debit_prod_out_rule(m, a) == a.M_prod_tot = SumOver(a.M_prod, m.k)

\* the sampled flows around a node that satisfy its balances and the
\* existence rules of its pipes
NodeFlowSolutions(m) ==
    UNION {
        {a \in [kind : {"supply"}, j : {j}, M_linePC : [m.i -> FlowGrid(m)],
                M_lineCC_in : [m.o \ {j} -> FlowGrid(m)],
                M_lineCC_out : [m.o \ {j} -> FlowGrid(m)],
                M_supply : FlowGrid(m), M_hx : FlowGrid(m)] :
            /\ bilanA_debit_supply_rule(m, a)
            /\ bilanB_debit_hx_in_rule(m, a)
            /\ \A i \in m.i :
                  Ex_M_max_rule(a.M_linePC[i], m.M_max, m.Y_linePC[<<i, j>>])
            /\ \A o \in m.o \ {j} :
                  /\ Ex_M_max_rule(a.M_lineCC_in[o], m.M_max,
                                   m.Y_lineCC_parallel[<<o, j>>])
                  /\ Ex_M_max_rule(a.M_lineCC_out[o], m.M_max,
                                   m.Y_lineCC_parallel[<<j, o>>])}
        \cup
        {a \in [kind : {"return"}, j : {j}, M_lineCP : [m.i -> FlowGrid(m)],
                M_lineCC_in : [m.o \ {j} -> FlowGrid(m)],
                M_lineCC_out : [m.o \ {j} -> FlowGrid(m)],
                M_return : FlowGrid(m), M_hx : FlowGrid(m)] :
            /\ bilanD_debit_hx_out_rule(m, a)
            /\ bilanE_debit_return_rule(m, a)
            /\ \A i \in m.i :
                  Ex_M_max_rule(a.M_lineCP[i], m.M_max, m.Y_lineCP[<<j, i>>])
            /\ \A o \in m.o \ {j} :
                  /\ Ex_M_max_rule(a.M_lineCC_in[o], m.M_max,
                                   m.Y_lineCC_return[<<o, j>>])
                  /\ Ex_M_max_rule(a.M_lineCC_out[o], m.M_max,
                                   m.Y_lineCC_return[<<j, o>>])}
        : j \in m.j}
    \cup
    UNION {
        {a \in [kind : {"producer"}, i : {i}, M_prod : [m.k -> FlowGrid(m)],
                M_prod_tot : FlowGrid(m)] :
            bilanGH_debit_prod_out_rule(m, a)}
        : i \in m.i}

\* M_prod_tot[i] == sum(M_lineCP[j, i] for j in j)
bilanF_debit_prod_tot_in_rule(m, a, i) ==
    a.M_prod_tot[i] = SumOver([j \in m.j |-> a.M_lineCP[<<j, i>>]], m.j)

\* M_prod_tot[i] == sum(M_linePC[i, j] for j in j)
bilanI_debit_prod_tot_out_rule_AtLeast(m, a, i) ==
    a.M_prod_tot[i] >= SumOver([j \in m.j |-> a.M_linePC[<<i, j>>]], m.j)

bilanI_debit_prod_tot_out_rule(m, a, i) ==
    a.M_prod_tot[i] = SumOver([j \in m.j |-> a.M_linePC[<<i, j>>]], m.j)

\* the sampled flows of the whole supply side and of the producers' returns
\* that satisfy the balances A and B of every consumer, the balances F and I
\* of every producer and the existence rules of the pipes.  A network
\* assignment holds M_linePC, M_lineCP, M_lineCC_parallel (off the diagonal),
\* M_supply, M_hx and M_prod_tot; the values are taken pipe flows first, then
\* the node flows the balances tie to them.
NetworkFlowSolutions(m) ==
    LET OffDiagonal == {x \in m.j \X m.o : x[1] # x[2]}
        Gated(index, Y) ==
            {f \in [index -> FlowGrid(m)] :
                \A x \in index : Ex_M_max_rule(f[x], m.M_max, Y[x])}
        \* the flows around consumer j, as the balance rules read them
        Around(n, j, M_hx) ==
            [j |-> j,
             M_linePC |-> [i \in m.i |-> n.M_linePC[<<i, j>>]],
             M_lineCC_in |-> [o \in m.o \ {j} |-> n.M_lineCC_parallel[<<o, j>>]],
             M_lineCC_out |-> [o \in m.o \ {j} |-> n.M_lineCC_parallel[<<j, o>>]],
             M_supply |-> n.M_supply[j],
             M_hx |-> M_hx]
        Pipes ==
            {[kind |-> "network", M_linePC |-> f, M_lineCC_parallel |-> g] :
                f \in Gated(m.i \X m.j, m.Y_linePC),
                g \in Gated(OffDiagonal, m.Y_lineCC_parallel)}
        Supplied ==
            {n \in {p @@ [M_supply |-> s] : p \in Pipes, s \in [m.j -> FlowGrid(m)]} :
                \A j \in m.j : bilanA_debit_supply_rule(m, Around(n, j, 0))}
        Exchanged ==
            {n \in {p @@ [M_hx |-> h] : p \in Supplied, h \in [m.j -> FlowGrid(m)]} :
                \A j \in m.j : bilanB_debit_hx_in_rule(m, Around(n, j, n.M_hx[j]))}
        Produced ==
            {n \in {p @@ [M_prod_tot |-> t] :
                        p \in Exchanged, t \in [m.i -> FlowGrid(m)]} :
                \A i \in m.i : bilanI_debit_prod_tot_out_rule(m, n, i)}
    IN  {n \in {p @@ [M_lineCP |-> f] :
                    p \in Produced, f \in Gated(m.j \X m.i, m.Y_lineCP)} :
            \A i \in m.i : bilanF_debit_prod_tot_in_rule(m, n, i)}

-----------------------------------------------------------------------------
(* Heat exchangers.  An exchanger assignment holds the values of T_hx_in,  *)
(* T_hx_out, DT1, DT2, DTLM, H_hx, M_hx and A_hx at consumer j.            *)

\* the bounds of the Vars of the exchanger of consumer j, as (lower, upper);
\* those of A_hx are A_hx_borne rounded inwards to whole area units
ExchangerBounds(m, j) ==
    LET T_prod_out_max == Max(Range(m.T_prod_out_max))
    IN  [M_hx |-> <<m.M_min, m.M_max>>,
         M_supply |-> <<m.M_min, m.M_max>>,
         M_return |-> <<m.M_min, m.M_max>>,
         T_hx_in |-> <<m.T_init_min, m.T_init_max>>,
         T_hx_out |-> <<m.T_init_min, m.T_init_max>>,
         DTLM |-> <<0, T_prod_out_max>>,
         DT1 |-> <<m.T_hx_pinch, m.T_init_max>>,
         DT2 |-> <<m.T_hx_pinch, m.T_init_max>>,
         A_hx |-> <<(m.H_req[j] + m.K_hx * T_prod_out_max - 1)
                        \div (m.K_hx * T_prod_out_max),
                    (10 * m.H_req[j]) \div (m.K_hx * T_prod_out_max)>>,
         H_hx |-> <<0, m.H_req[j]>>]

\* the sampled values of those Vars, inside their bounds: temperatures a few
\* steps of 2 * T_hx_pinch above the temperatures the consumer requires
ExchangerGrid(m, j) ==
    LET b == ExchangerBounds(m, j)
        step == 2 * m.T_hx_pinch
        Sampled(bounds, base) ==
            {x \in bounds[1] .. bounds[2] :
                \/ x = bounds[1]
                \/ \E n \in 0 .. MaxTempSteps : x = base + n * step}
    IN  [M_hx |-> FlowGrid(m),
         T_hx_in |-> Sampled(b.T_hx_in, m.T_req_in[j])
                     \cup Sampled(b.T_hx_in, m.T_req_out[j]),
         T_hx_out |-> Sampled(b.T_hx_out, m.T_req_in[j])
                      \cup Sampled(b.T_hx_out, m.T_req_out[j]),
         DTLM |-> Sampled(b.DTLM, 0),
         DT1 |-> Sampled(b.DT1, 0),
         DT2 |-> Sampled(b.DT2, 0),
         A_hx |-> b.A_hx[1] .. b.A_hx[2],
         H_hx |-> {b.H_hx[1], b.H_hx[2] \div 2, b.H_hx[2]}]

\* H_hx[j] == H_req[j]
contrainte_appro_rule_AtMost(m, a) == a.H_hx <= m.H_req[a.j]

contrainte_appro_rule(m, a) == a.H_hx = m.H_req[a.j]

\* DT1[j] == T_hx_in[j] - T_req_out[j]
bilan_DT1_rule_ColdSide(m, a) == a.DT1 = a.T_hx_in - m.T_req_in[a.j]

bilan_DT1_rule(m, a) == a.DT1 = a.T_hx_in - m.T_req_out[a.j]

\* the sampled exchanger values that satisfy the exchanger constraints
ExchangerSolutions(m) ==
    LET bilan_DT2_rule(a) == a.DT2 = a.T_hx_out - m.T_req_in[a.j]
        bilan_DT1_pinch_rule(a) == a.DT1 >= m.T_hx_pinch
        bilan_DT2_pinch_rule(a) == a.DT2 >= m.T_hx_pinch
        \* DTLM == (DT1 * DT2 * 0.5 * (DT1 + DT2)) ** (1 / 3)
        diffTemplog_rule(a) ==
            2 * (a.DTLM * a.DTLM * a.DTLM) = a.DT1 * a.DT2 * (a.DT1 + a.DT2)
        bilan_chaleur_HX_rule(a) ==
            a.H_hx = a.M_hx * m.Cp * (a.T_hx_in - a.T_hx_out)
        bilan_chaleur_HX_DTLM_rule(a) == a.H_hx = a.A_hx * m.K_hx * a.DTLM
        \* the hot side, the cold side, then both with DTLM
        Thermal(j) ==
            LET g == ExchangerGrid(m, j)
                Hot == {h \in [kind : {"exchanger"}, j : {j},
                               T_hx_in : g.T_hx_in, DT1 : g.DT1] :
                            bilan_DT1_rule(m, h) /\ bilan_DT1_pinch_rule(h)}
                Cold == {c \in [j : {j}, T_hx_out : g.T_hx_out, DT2 : g.DT2] :
                            bilan_DT2_rule(c) /\ bilan_DT2_pinch_rule(c)}
            IN  {t \in {h @@ c @@ [DTLM |-> l] :
                            h \in Hot, c \in Cold, l \in g.DTLM} :
                    diffTemplog_rule(t)}
        Duty(j) ==
            LET g == ExchangerGrid(m, j)
            IN  [H_hx : g.H_hx, M_hx : g.M_hx, A_hx : g.A_hx]
    IN  UNION {
            {a \in {t @@ d : t \in Thermal(j), d \in Duty(j)} :
                /\ contrainte_appro_rule(m, a)
                /\ bilan_chaleur_HX_rule(a)
                /\ bilan_chaleur_HX_DTLM_rule(a)}
            : j \in m.j}

-----------------------------------------------------------------------------
(* Costs.  A cost assignment holds the values of the Vars C_pump, C_heat,  *)
(* C_Hinst, C_hx, C_line_tot, C_pipe and C_tr.                             *)

\* C_line_tot == C_pipe + C_tr
cout_canalisation_tot_rule_PipeOnly(m, a) == a.C_line_tot = a.C_pipe

cout_canalisation_tot_rule(m, a) == a.C_line_tot = a.C_pipe + a.C_tr

\* the expression the solver minimises
objective_rule(m, a) == a.C_pump + a.C_heat + a.C_Hinst + a.C_hx + a.C_line_tot

\* the sampled cost values, inside bounds=(0, None), that satisfy the
\* constraint on the cost Vars alone
CostSolutions(m) ==
    {a \in [kind : {"cost"}, C_pump : 0 .. MaxCost, C_heat : {0, MaxCost},
            C_Hinst : {0, MaxCost}, C_hx : {0, MaxCost},
            C_line_tot : 0 .. 2 * MaxCost, C_pipe : 0 .. MaxCost,
            C_tr : 0 .. MaxCost] :
        cout_canalisation_tot_rule(m, a)}

\* - T_bigM * (1 - Y) <= valeur <= T_bigM * (1 - Y), the inequality of
\* bilanB_T_hx_in, bilanE_T_return, bilanE2_T_return, bilanG_T_prod_in and
\* bilanI_T_prod_tot_out on the difference valeur of two temperature Vars
bilan_T_rule_bigM_NoGate(m, valeur, Y) ==
    BigMRange_NoGate(valeur, m.T_bigM, Y)

bilan_T_rule_bigM(m, valeur, Y) == BigMRange(valeur, m.T_bigM, Y)

-----------------------------------------------------------------------------
(* Production units.  A unit assignment holds the values of M_prod,        *)
(* T_prod_out, T_prod_in and H_inst of technology k at producer i.         *)

\* bounds=(0, H_inst_max) of the Var H_inst
H_inst_bounds(m) == 0 .. m.H_inst_max

\* H_inst * Eff <= M_prod * Cp * (T_prod_out - T_prod_in)
\*                 + H_inst_bigM * (1 - Y_P), with Eff in percent
bilan_H_inst_rule_bigM1(m, a) ==
    a.H_inst * m.Eff[a.k]
        <= 100 * (a.M_prod * m.Cp * (a.T_prod_out - a.T_prod_in)
                  + m.H_inst_bigM * (1 - m.Y_P[<<a.i, a.k>>]))

\* H_inst * Eff >= M_prod * Cp * (T_prod_out - T_prod_in)
\*                 - H_inst_bigM * (1 - Y_P)
bilan_H_inst_rule_bigM2_OneSided(m, a) == bilan_H_inst_rule_bigM1(m, a)

bilan_H_inst_rule_bigM2(m, a) ==
    a.H_inst * m.Eff[a.k]
        >= 100 * (a.M_prod * m.Cp * (a.T_prod_out - a.T_prod_in)
                  - m.H_inst_bigM * (1 - m.Y_P[<<a.i, a.k>>]))

\* the sampled values of the Vars of every unit that satisfy the constraints
\* on them: temperatures at the bounds of the temperature Vars, at the limits
\* of the technology and at the temperatures the consumers require; installed
\* powers at the bounds of H_inst and at the powers some sampled flow and
\* temperatures call for
UnitSolutions(m) ==
    LET Ex_M_prod_max_rule(a) ==
            Ex_M_max_rule(a.M_prod, m.M_max, m.Y_P[<<a.i, a.k>>])
        Ex_M_prod_min_rule(a) == a.M_prod >= m.M_min * m.Y_P[<<a.i, a.k>>]
        Temperatures(k) ==
            {T \in {m.T_init_min, m.T_init_max, m.T_prod_in_min[k],
                    m.T_prod_out_max[k]}
                        \cup Range(m.T_req_in) \cup Range(m.T_req_out) :
                m.T_init_min <= T /\ T <= m.T_init_max}
        Flows(i, k) ==
            {f \in [kind : {"unit"}, i : {i}, k : {k}, M_prod : FlowGrid(m)] :
                Ex_M_prod_max_rule(f) /\ Ex_M_prod_min_rule(f)}
        Heated(i, k) ==
            {f @@ t : f \in Flows(i, k),
                      t \in [T_prod_out : Temperatures(k),
                             T_prod_in : Temperatures(k)]}
        Powers(i, k) ==
            {h \in {0, m.H_inst_max}
                   \cup {(100 * (x.M_prod * m.Cp * (x.T_prod_out - x.T_prod_in)))
                            \div m.Eff[k] : x \in Heated(i, k)} :
                h \in H_inst_bounds(m)}
    IN  UNION {
            {a \in {x @@ [H_inst |-> h] : x \in Heated(ik[1], ik[2]),
                                          h \in Powers(ik[1], ik[2])} :
                bilan_H_inst_rule_bigM1(m, a) /\ bilan_H_inst_rule_bigM2(m, a)}
            : ik \in m.i \X m.k}

-----------------------------------------------------------------------------
(* Energy balances.  An energy assignment holds the flows of a network     *)
(* assignment and M_lineCC_return, M_return, M_prod, the temperatures      *)
(* T_prod_tot_out, T_supply, T_hx_out, T_return, T_prod_tot_in, T_prod_in, *)
(* T_prod_out and the powers H_hx and H_inst.  T_hx_in is T_supply         *)
(* (bilanB2_T_hx_in), the outlet temperature of a pipe is its inlet        *)
(* temperature (the loss_line rules), and the inlet temperature of a pipe   *)
(* is sampled at the temperature of the node it leaves.                    *)

\* the sampled values that satisfy the mass and energy balances, the
\* temperature equalities, the heat balance of the exchangers and of the
\* production units and contrainte_appro; temperatures are sampled at the
\* upper bound of the temperature Vars and at the temperatures the consumers
\* require, and the values are taken in the order of the flow, each group
\* filtered by the constraints that tie it to the groups before it
EnergySolutions(m) ==
    LET OffDiagonal == {x \in m.j \X m.o : x[1] # x[2]}
        Units == m.i \X m.k
        Temperatures ==
            {T \in {m.T_init_max} \cup Range(m.T_req_in) \cup Range(m.T_req_out) :
                m.T_init_min <= T /\ T <= m.T_init_max}
        Gated(index, Y) ==
            {f \in [index -> FlowGrid(m)] :
                \A x \in index : Ex_M_max_rule(f[x], m.M_max, Y[x])}
        \* the inlet and outlet temperature of the pipes of each family
        T_linePC(n) == [x \in m.i \X m.j |-> n.T_prod_tot_out[x[1]]]
        T_lineCC_parallel(n) == [x \in m.j \X m.o |-> n.T_supply[x[1]]]
        T_lineCC_return(n) == [x \in m.o \X m.j |-> n.T_return[x[1]]]
        T_lineCP(n) == [x \in m.j \X m.i |-> n.T_return[x[1]]]
        \* M_supply * T_supply == sum(M_linePC * T_linePC_out)
        \*                        + sum(M_lineCC_parallel * T_lineCC_parallel_out)
        bilanA_H_supply_rule(n, j) ==
            n.M_supply[j] * n.T_supply[j]
            = SumOver([i \in m.i |->
                        n.M_linePC[<<i, j>>] * T_linePC(n)[<<i, j>>]], m.i)
              + SumOver([o \in m.o |->
                        n.M_lineCC_parallel[<<o, j>>]
                        * T_lineCC_parallel(n)[<<o, j>>]], m.o \ {j})
        bilanB_T_hx_in_rule_bigM(n, j, o) ==
            bilan_T_rule_bigM(m, n.T_supply[j] - T_lineCC_parallel(n)[<<j, o>>],
                              m.Y_lineCC_parallel[<<j, o>>])
        bilanI_T_prod_tot_out_rule_bigM(n, i, j) ==
            bilan_T_rule_bigM(m, T_linePC(n)[<<i, j>>] - n.T_prod_tot_out[i],
                              m.Y_linePC[<<i, j>>])
        \* H_hx == M_hx * Cp * (T_hx_in - T_hx_out)
        bilan_chaleur_HX_rule(n, j) ==
            n.H_hx[j] = n.M_hx[j] * m.Cp * (n.T_supply[j] - n.T_hx_out[j])
        \* the flows around consumer j on the return side
        ReturnAround(n, j) ==
            [j |-> j,
             M_lineCP |-> [i \in m.i |-> n.M_lineCP[<<j, i>>]],
             M_lineCC_in |-> [o \in m.o \ {j} |-> n.M_lineCC_return[<<o, j>>]],
             M_lineCC_out |-> [o \in m.o \ {j} |-> n.M_lineCC_return[<<j, o>>]],
             M_return |-> n.M_return[j],
             M_hx |-> n.M_hx[j]]
        \* M_return * T_return == M_hx * T_hx_out
        \*                        + sum(M_lineCC_return * T_lineCC_return_out)
        bilanD_H_hx_out_rule(n, j) ==
            n.M_return[j] * n.T_return[j]
            = n.M_hx[j] * n.T_hx_out[j]
              + SumOver([o \in m.o |->
                        n.M_lineCC_return[<<o, j>>]
                        * T_lineCC_return(n)[<<o, j>>]], m.o \ {j})
        bilanE_T_return_rule_bigM(n, i, j) ==
            bilan_T_rule_bigM(m, n.T_return[j] - T_lineCP(n)[<<j, i>>],
                              m.Y_lineCP[<<j, i>>])
        bilanE2_T_return_rule_bigM(n, o, j) ==
            bilan_T_rule_bigM(m, n.T_return[o] - T_lineCC_return(n)[<<o, j>>],
                              m.Y_lineCC_return[<<o, j>>])
        \* M_prod_tot * T_prod_tot_in == sum(M_lineCP * T_lineCP_out)
        bilanF_H_prod_tot_in_rule(n, i) ==
            n.M_prod_tot[i] * n.T_prod_tot_in[i]
            = SumOver([j \in m.j |->
                        n.M_lineCP[<<j, i>>] * T_lineCP(n)[<<j, i>>]], m.j)
        bilanG_T_prod_in_rule_bigM(n, i, k) ==
            bilan_T_rule_bigM(m, n.T_prod_tot_in[i] - n.T_prod_in[<<i, k>>],
                              m.Y_P[<<i, k>>])
        \* M_prod_tot * T_prod_tot_out == sum(M_prod * T_prod_out)
        bilanH_H_prod_out_rule(n, i) ==
            n.M_prod_tot[i] * n.T_prod_tot_out[i]
            = SumOver([k \in m.k |->
                        n.M_prod[<<i, k>>] * n.T_prod_out[<<i, k>>]], m.k)
        \* the Vars of technology k at producer i, as the unit rules read them
        Unit(n, x, H_inst) ==
            [i |-> x[1], k |-> x[2], M_prod |-> n.M_prod[x],
             T_prod_out |-> n.T_prod_out[x], T_prod_in |-> n.T_prod_in[x],
             H_inst |-> H_inst]
        Powers(n, x) ==
            {h \in {0, m.H_inst_max,
                    (100 * (n.M_prod[x] * m.Cp
                            * (n.T_prod_out[x] - n.T_prod_in[x])))
                        \div m.Eff[x[2]]} :
                h \in H_inst_bounds(m)}
        Network ==
            {[n EXCEPT !.kind = "energy"] : n \in NetworkFlowSolutions(m)}
        Supplied ==
            {n \in {p @@ [T_prod_tot_out |-> tp, T_supply |-> ts] :
                        p \in Network, tp \in [m.i -> Temperatures],
                        ts \in [m.j -> Temperatures]} :
                /\ \A j \in m.j : bilanA_H_supply_rule(n, j)
                /\ \A j \in m.j, o \in m.o : bilanB_T_hx_in_rule_bigM(n, j, o)
                /\ \A i \in m.i, j \in m.j :
                        bilanI_T_prod_tot_out_rule_bigM(n, i, j)}
        Exchanged ==
            {n \in {p @@ [T_hx_out |-> t, H_hx |-> m.H_req] :
                        p \in Supplied, t \in [m.j -> Temperatures]} :
                \A j \in m.j :
                    /\ bilan_chaleur_HX_rule(n, j)
                    /\ contrainte_appro_rule(m, [j |-> j, H_hx |-> n.H_hx[j]])}
        Returned ==
            {n \in {p @@ [M_lineCC_return |-> g, M_return |-> r] :
                        p \in Exchanged,
                        g \in Gated(OffDiagonal, m.Y_lineCC_return),
                        r \in [m.j -> FlowGrid(m)]} :
                \A j \in m.j :
                    /\ bilanD_debit_hx_out_rule(m, ReturnAround(n, j))
                    /\ bilanE_debit_return_rule(m, ReturnAround(n, j))}
        Cooled ==
            {n \in {p @@ [T_return |-> tr, T_prod_tot_in |-> tp] :
                        p \in Returned, tr \in [m.j -> Temperatures],
                        tp \in [m.i -> Temperatures]} :
                /\ \A j \in m.j : bilanD_H_hx_out_rule(n, j)
                /\ \A i \in m.i : bilanF_H_prod_tot_in_rule(n, i)
                /\ \A i \in m.i, j \in m.j : bilanE_T_return_rule_bigM(n, i, j)
                /\ \A o \in m.o, j \in m.j : bilanE2_T_return_rule_bigM(n, o, j)}
        Split ==
            {n \in {p @@ [M_prod |-> f, T_prod_in |-> t] :
                        p \in Cooled, f \in Gated(Units, m.Y_P),
                        t \in [Units -> Temperatures]} :
                /\ \A i \in m.i :
                        bilanGH_debit_prod_out_rule(m,
                            [M_prod_tot |-> n.M_prod_tot[i],
                             M_prod |-> [k \in m.k |-> n.M_prod[<<i, k>>]]])
                /\ \A x \in Units : bilanG_T_prod_in_rule_bigM(n, x[1], x[2])}
        Heated ==
            {n \in {p @@ [T_prod_out |-> t] :
                        p \in Split, t \in [Units -> Temperatures]} :
                \A i \in m.i : bilanH_H_prod_out_rule(n, i)}
    IN  UNION {
            {n @@ [H_inst |-> h] :
                h \in {f \in [Units -> UNION {Powers(n, x) : x \in Units}] :
                        \A x \in Units :
                            /\ bilan_H_inst_rule_bigM1(m, Unit(n, x, f[x]))
                            /\ bilan_H_inst_rule_bigM2(m, Unit(n, x, f[x]))}}
            : n \in Heated}

\* bounds=(0, P_max) of the Var P_pump, as (lower, upper)
P_pump_bounds_FromPMin(m) == <<m.P_min, m.P_max>>

P_pump_bounds(m) == <<0, m.P_max>>

\* C_pump == 1.e-6 * f_opex_pump * C_pump_unit * period
\*           * sum(P_pump[i] * M_prod_tot[i] for i in i) * Eff_pump / rho,
\* the pumping cost counted in the unit that makes the constant factor 1
cout_pompage_rule(m, a) ==
    a.C_pump = SumOver([i \in m.i |-> a.P_pump[i] * a.M_prod_tot[i]], m.i)

\* the sampled values of P_pump, M_prod_tot and of the cost Vars that satisfy
\* the constraints on the pumping cost and on the line cost.  A pump
\* assignment holds P_pump[i], M_prod_tot[i] and the cost Vars, sampled with
\* the pressures next to the lower bound and without pipe, installation and
\* exchanger costs.
PumpSolutions(m) ==
    LET b == P_pump_bounds(m)
        Pressures == b[1] .. Min({b[1] + MaxCost, b[2]})
        Pumps == [kind : {"pump"}, P_pump : [m.i -> Pressures],
                  M_prod_tot : [m.i -> FlowGrid(m)]]
        Costs == {[c EXCEPT !.kind = "pump"] :
                    c \in {x \in CostSolutions(m) :
                            x.C_pipe = 0 /\ x.C_Hinst = 0 /\ x.C_hx = 0}}
    IN  {a \in {c @@ p : c \in Costs, p \in Pumps} : cout_pompage_rule(m, a)}

\* every assignment of one group of variables the solver may return
Solutions(m) ==
    AllPipeSolutions(m) \cup NodeFlowSolutions(m) \cup ExchangerSolutions(m)
    \cup CostSolutions(m) \cup NetworkFlowSolutions(m)
    \cup PumpSolutions(m) \cup UnitSolutions(m) \cup EnergySolutions(m)

\* an assignment exists only if every pipe and every exchanger has one
Feasible(m) ==
    /\ PipesFeasible(m)
    /\ \A j \in m.j : \E a \in ExchangerSolutions(m) : a.j = j

-----------------------------------------------------------------------------
(* Model.solve and the external solver *)

\* the iteration cap of tests/test_json_interface.py stops the solver early
IterationCapped(opts) == "max_iter" \in DOMAIN opts /\ opts.max_iter <= 2

\* what opt.solve(self.model) may do: stop without converging, or load a
\* solution into the model's variables
SolverOutcomes(m, opts) ==
    {[solver |-> [status |-> "warning"], asg |-> NoAsg]}
    \cup
    (IF ~IterationCapped(opts) /\ Feasible(m)
     THEN {[solver |-> [status |-> "ok"], asg |-> a] : a \in Solutions(m)}
     ELSE {})

\* the value of the call model.solve(...): the method has no return statement
ModelSolveValue(outcome) == None

-----------------------------------------------------------------------------
(* JSONInterface._parse_result *)

\* the shapes of a solver result _parse_result reads
RawSolution ==
    [production |-> (Id2Str(IdP) :> [flow_rate |-> 4]),
     consumption |-> (Id2Str(IdC1) :> [flow_rate |-> 2]) @@
                     (Id2Str(IdC2) :> [flow_rate |-> 2]),
     prod_cons_pipes |-> (<<Id2Str(IdP), Id2Str(IdC1)>> :> [speed |-> 1]),
     cons_cons_pipes |-> (<<Id2Str(IdC1), Id2Str(IdC2)>> :> [speed |-> 1]),
     global_indicators |-> [total_cost |-> 3, total_capex |-> 2, total_opex |-> 1]]

RawResults ==
    {[status |-> "ok", solution |-> RawSolution],
     [status |-> "warning"],
     [status |-> "warning", termination_condition |-> "maxIterations"]}

\* 'solution' not in result
LacksSolution(r) == "solution" \notin DOMAIN r

\* {'id': _str2id(key), **values} for every item; the array as a set
NodeArray(nodes) == {nodes[key] @@ [id |-> Str2Id(key)] : key \in DOMAIN nodes}

\* {**prod_cons_pipes, **cons_cons_pipes}
MergePipes(prod_cons_pipes, cons_cons_pipes) == cons_cons_pipes @@ prod_cons_pipes

LinkArray(pipes) ==
    {pipes[key] @@ [source |-> Str2Id(key[1]), target |-> Str2Id(key[2])] :
        key \in DOMAIN pipes}

ParseResult(r) ==
    IF r = None
    THEN Raised(PyError("TypeError", "argument of type 'NoneType' is not iterable",
                        "parse"))
    ELSE IF LacksSolution(r)
    THEN [error |-> NoError, value |-> r]
    ELSE LET configuration_out == r.solution
         IN  [error |-> NoError,
              value |->
                [r EXCEPT !.solution =
                    [nodes |-> [production |-> NodeArray(configuration_out.production),
                                consumption |-> NodeArray(configuration_out.consumption)],
                     links |-> LinkArray(MergePipes(configuration_out.prod_cons_pipes,
                                                    configuration_out.cons_cons_pipes)),
                     global_indicators |-> configuration_out.global_indicators]]]

-----------------------------------------------------------------------------
Init ==
    /\ options \in OptionSets
    /\ entry = "none"
    /\ pc = "idle"
    /\ json_input = NoInput
    /\ problem = None
    /\ model = NoModel
    /\ solver = NoSolver
    /\ asg = NoAsg
    /\ result = None
    /\ error = NoError
    /\ trace = <<>>
    /\ solverCalls = 0

\* a caller invokes JSONInterface.solve(json_input)
CallSolve ==
    /\ pc = "idle"
    /\ \E input \in JsonInputs : json_input' = input
    /\ entry' = "json"
    /\ pc' = "called"
    /\ UNCHANGED <<options, problem, model, solver, asg, result, error,
                   trace, solverCalls>>

\* an exception raised by a step leaves the call; otherwise the call goes on
Propagate_Swallow(err, next) == next

Propagate(err, next) == IF err # NoError THEN "raised" ELSE next

\* problem = self._define_problem(json_input)
StepDefineProblem ==
    /\ pc = "called"
    /\ LET r == DefineProblem(json_input)
       IN  /\ problem' = r.value
           /\ error' = r.error
           /\ pc' = Propagate(r.error, "defined")
    /\ trace' = Append(trace, "define")
    /\ UNCHANGED <<options, entry, json_input, model, solver, asg, result,
                   solverCalls>>

\* a caller builds Model(**kwargs) itself, with its own solver options
CallModel ==
    /\ pc = "idle"
    /\ \E kwargs \in ModelKwargs : problem' = kwargs
    /\ entry' = "model"
    /\ pc' = "defined"
    /\ UNCHANGED <<options, json_input, model, solver, asg, result, error,
                   trace, solverCalls>>

\* model = Model(**problem)
StepModelInit ==
    /\ pc = "defined"
    /\ LET r == ModelInit(problem)
       IN  /\ model' = IF r.error # NoError THEN NoModel ELSE r.value
           /\ error' = r.error
           /\ pc' = Propagate(r.error, "assembled")
    /\ trace' = Append(trace, "assemble")
    /\ UNCHANGED <<options, entry, json_input, problem, solver, asg, result,
                   solverCalls>>

\* result = model.solve('ipopt', options)
StepModelSolve ==
    /\ pc = "assembled"
    /\ \E outcome \in SolverOutcomes(model, options) :
            /\ solver' = outcome.solver
            /\ asg' = outcome.asg
            /\ result' = ModelSolveValue(outcome)
    /\ solverCalls' = solverCalls + 1
    /\ trace' = Append(trace, "solve")
    /\ pc' = IF entry = "json" THEN "solved" ELSE "returned"
    /\ UNCHANGED <<options, entry, json_input, problem, model, error>>

\* a caller hands a solver result to the static method _parse_result
CallParseResult ==
    /\ pc = "idle"
    /\ \E r \in RawResults : result' = r
    /\ entry' = "parse"
    /\ pc' = "solved"
    /\ UNCHANGED <<options, json_input, problem, model, solver, asg, error,
                   trace, solverCalls>>

\* return self._parse_result(result)
StepParseResult ==
    /\ pc = "solved"
    /\ LET r == ParseResult(result)
       IN  /\ result' = r.value
           /\ error' = r.error
           /\ pc' = Propagate(r.error, "returned")
    /\ trace' = Append(trace, "parse")
    /\ UNCHANGED <<options, entry, json_input, problem, model, solver, asg,
                   solverCalls>>

Next ==
    \/ CallSolve
    \/ StepDefineProblem
    \/ CallModel
    \/ StepModelInit
    \/ StepModelSolve
    \/ CallParseResult
    \/ StepParseResult

Spec == Init /\ [][Next]_vars

-----------------------------------------------------------------------------
(* Vocabulary of the properties *)

Finished == pc \in {"returned", "raised"}

\* the node ids an input declares
ProductionIds(input) ==
    {input.nodes.production[n].id : n \in DOMAIN input.nodes.production}

ConsumptionIds(input) ==
    {input.nodes.consumption[n].id : n \in DOMAIN input.nodes.consumption}

KnownIds(input) == ProductionIds(input) \cup ConsumptionIds(input)

\* every link joins two declared nodes
WellFormed(input) ==
    \A n \in DOMAIN input.links :
        /\ input.links[n].source \in KnownIds(input)
        /\ input.links[n].target \in ConsumptionIds(input)
        /\ input.links[n].source # input.links[n].target

HasUnknownSource(input) ==
    \E n \in DOMAIN input.links : input.links[n].source \notin KnownIds(input)

\* the links of the input from s to t, by position
LinksBetween(input, s, t) ==
    {n \in DOMAIN input.links :
        input.links[n].source = s /\ input.links[n].target = t}

\* the length the input gives the pair (s, t): that of its last link, 0 without one
SuppliedLength(input, s, t) ==
    IF LinksBetween(input, s, t) = {} THEN 0
    ELSE input.links[Max(LinksBetween(input, s, t))].length

Defined == entry = "json" /\ problem # None

StepOrder == <<"define", "assemble", "solve", "parse">>

\* the configured entry behind the flag of a pipe
ConfiguredEntry(configuration, family, index) ==
    CASE family = "PC" -> configuration.prod_cons_pipes[index]
      [] family = "CP" -> configuration.prod_cons_pipes[<<index[2], index[1]>>]
      [] family = "CC_parallel" -> configuration.cons_cons_pipes[index]
      [] family = "CC_return" -> configuration.cons_cons_pipes[<<index[2], index[1]>>]

\* values of the big-M constant other than the one the model computes
BigMValues(m) == {0, m.M_max, m.M_bigM}

-----------------------------------------------------------------------------
(* Properties *)

\* C1: on a well-formed input and without an iteration cap, a finished call
\* of JSONInterface.solve has returned, and when the solver converged the
\* result has status 'ok' and a solution made of nodes, links and
\* global_indicators.
C1_SolveReturnsSolution ==
    (entry = "json" /\ Finished /\ WellFormed(json_input)
        /\ ~IterationCapped(options))
    => /\ pc = "returned"
       /\ solver.status = "ok" =>
            /\ "status" \in DOMAIN result /\ result.status = "ok"
            /\ "solution" \in DOMAIN result
            /\ DOMAIN result.solution = {"nodes", "links", "global_indicators"}
            /\ DOMAIN result.solution.nodes = {"production", "consumption"}

\* C2: with the iteration cap max_iter = 2 a finished call of
\* JSONInterface.solve on a well-formed input has raised nothing and has
\* returned a result of status 'warning' without a solution; _parse_result
\* returns a result without 'solution' as it got it.
C2_NonConvergenceIsData ==
    /\ (entry = "json" /\ Finished /\ WellFormed(json_input)
            /\ IterationCapped(options))
       => /\ pc = "returned"
          /\ error = NoError
          /\ "status" \in DOMAIN result /\ result.status = "warning"
          /\ "solution" \notin DOMAIN result
    /\ (entry = "parse" /\ pc = "returned" /\ "solution" \notin DOMAIN result)
       => result \in RawResults

\* C3: the steps of a call of JSONInterface.solve happen in the order
\* definition, assembly, solver call, parsing; the solver is invoked at most
\* once, only on a completely assembled model, and never once definition or
\* assembly has raised, which ends the call.
C3_OrderedSingleSolve ==
    /\ entry = "json" =>
            /\ Len(trace) <= Len(StepOrder)
            /\ \A n \in DOMAIN trace : trace[n] = StepOrder[n]
    /\ solverCalls <= 1
    /\ solverCalls = Cardinality({n \in DOMAIN trace : trace[n] = "solve"})
    /\ solverCalls > 0 => model.built
    /\ error.stage \in {"define", "assemble"} =>
            /\ pc = "raised"
            /\ solverCalls = 0
            /\ solver = NoSolver

C3_Witness ==
    /\ entry = "json"
    /\ pc = "raised"
    /\ error.stage = "assemble"
    /\ trace = <<"define", "assemble">>
    /\ solverCalls = 0

\* C4: once _define_problem has run on an input with a link whose source is
\* no declared node, the call has raised ValueError('Link with unknown
\* source.') and no problem definition exists.
C4_UnknownSourceRaises ==
    (entry = "json" /\ pc # "called" /\ HasUnknownSource(json_input))
    => /\ pc = "raised"
       /\ error = PyError("ValueError", "Link with unknown source.", "define")
       /\ problem = None

C4_Witness ==
    /\ entry = "json"
    /\ pc = "raised"
    /\ error.type = "ValueError"
    /\ Len(json_input.links) = 2
    /\ json_input.links[1].source \in KnownIds(json_input)
    /\ json_input.links[2].source \notin KnownIds(json_input)

\* C5: whenever _define_problem returns, every key of prod_cons_pipes is a
\* (production id, consumption id) pair and every key of cons_cons_pipes is a
\* (consumption id, consumption id) pair.
C5_PipeKeysAreNodePairs ==
    Defined =>
        /\ DOMAIN problem.configuration.prod_cons_pipes
            \subseteq (DOMAIN problem.production) \X (DOMAIN problem.consumption)
        /\ DOMAIN problem.configuration.cons_cons_pipes
            \subseteq (DOMAIN problem.consumption) \X (DOMAIN problem.consumption)

\* C6: after _define_problem, prod_cons_pipes has an entry for every
\* (production, consumption) pair and cons_cons_pipes one for every ordered
\* (consumption, consumption) pair, diagonal included: the length the input
\* supplies for the pair, 0 if it supplies none.
C6_DensePipeTables ==
    Defined =>
        /\ \A p \in ProductionIds(json_input), c \in ConsumptionIds(json_input) :
            LET key == <<Id2Str(p), Id2Str(c)>>
            IN  /\ key \in DOMAIN problem.configuration.prod_cons_pipes
                /\ problem.configuration.prod_cons_pipes[key]
                    = SuppliedLength(json_input, p, c)
        /\ \A c \in ConsumptionIds(json_input), d \in ConsumptionIds(json_input) :
            LET key == <<Id2Str(c), Id2Str(d)>>
            IN  /\ key \in DOMAIN problem.configuration.cons_cons_pipes
                /\ problem.configuration.cons_cons_pipes[key]
                    = SuppliedLength(json_input, c, d)

C6_Witness ==
    /\ Defined
    /\ ConsumptionIds(json_input) = {IdC1, IdC2}
    /\ LinksBetween(json_input, IdP, IdC1) # {}
    /\ LinksBetween(json_input, IdP, IdC2) = {}
    /\ problem.configuration.prod_cons_pipes[<<Id2Str(IdP), Id2Str(IdC1)>>] = 10
    /\ problem.configuration.prod_cons_pipes[<<Id2Str(IdP), Id2Str(IdC2)>>] = 0
    /\ problem.configuration.cons_cons_pipes[<<Id2Str(IdC2), Id2Str(IdC2)>>] = 0

\* C7: every existence flag of an assembled model is 0 or 1, and is 1 exactly
\* when the configured length of its link is > 0.
C7_FlagsFollowLengths ==
    model.built =>
        \A family \in Families : \A index \in PipeIndex(model, family) :
            LET Y == Y_line(model, family)[index]
                length == ConfiguredEntry(problem.configuration, family, index)
            IN  /\ Y \in {0, 1}
                /\ Y = 1 <=> length > 0

\* C8: in an assembled model the return tables are the transposes of the
\* forward tables, for the flags and for the lengths, and the lengths are
\* the configured ones.
C8_ReturnTablesAreTransposes ==
    model.built =>
        /\ \A p \in model.i, c \in model.j :
            /\ model.Y_lineCP[<<c, p>>] = model.Y_linePC[<<p, c>>]
            /\ model.L_CP[<<c, p>>] = model.L_PC[<<p, c>>]
            /\ model.L_PC[<<p, c>>] = problem.configuration.prod_cons_pipes[<<p, c>>]
        /\ \A a \in model.j, b \in model.o :
            /\ model.Y_lineCC_return[<<b, a>>] = model.Y_lineCC_parallel[<<a, b>>]
            /\ model.L_CC_return[<<b, a>>] = model.L_CC_parallel[<<a, b>>]
            /\ model.L_CC_parallel[<<a, b>>]
                = problem.configuration.cons_cons_pipes[<<a, b>>]

\* C9: a pipe whose existence flag is 0 has mass flow 0 and velocity 0 in
\* every assignment within the bounds that satisfies the constraints, for the
\* big-M constant of the model and for any other value of it.
C9_ExistenceGating ==
    /\ asg.kind = "pipe" =>
        (Y_line(model, asg.family)[asg.index] = 0 => asg.M = 0 /\ asg.V = 0)
    /\ pc = "assembled" =>
        \A family \in Families : \A index \in PipeIndex(model, family) :
            Y_line(model, family)[index] = 0 =>
                \A bigM \in BigMValues(model) :
                    \A a \in PipeSolutions([model EXCEPT !.M_bigM = bigM],
                                           family, index) :
                        a.M = 0 /\ a.V = 0

C9_Witness ==
    /\ solver.status = "ok"
    /\ asg.kind = "pipe"
    /\ Y_line(model, asg.family)[asg.index] = 0
    /\ asg.M = 0
    /\ asg.V = 0
    /\ \E index \in PipeIndex(model, asg.family) :
            Y_line(model, asg.family)[index] = 1

\* C10: for a pipe whose existence flag is 1 every assignment satisfying the
\* constraints has mass flow = velocity * rho * pi * Dint^2 / 4; for a pipe
\* whose flag is 0 the big-M inequality holds for every velocity, diameter and
\* flow within their bounds.
C10_BigMExactOrVacuous ==
    /\ asg.kind = "pipe" =>
        (Y_line(model, asg.family)[asg.index] = 1
            => asg.M = SectionFlow(model, asg.V, asg.Dint))
    /\ pc = "assembled" =>
        \A family \in Families : \A index \in PipeIndex(model, family) :
            /\ Y_line(model, family)[index] = 1 =>
                \A a \in PipeSolutions(model, family, index) :
                    a.M = SectionFlow(model, a.V, a.Dint)
            /\ Y_line(model, family)[index] = 0 =>
                \A a \in [kind : {"pipe"}, family : {family}, index : {index},
                          V : V_line_bounds(model), Dint : Dint_bounds(model),
                          M : M_line_bounds(model)] :
                    Def_V_line_rule_bigM(model, a)

C10_Witness ==
    /\ solver.status = "ok"
    /\ asg.kind = "pipe"
    /\ Y_line(model, asg.family)[asg.index] = 1
    /\ asg.V = model.V_max
    /\ asg.M = SectionFlow(model, asg.V, asg.Dint)
    /\ asg.M > 0

\* C11: in every assignment satisfying the constraints, at every consumer the
\* supply flow coming in (from producers and from other consumers) equals the
\* exchanger flow plus the supply flow going out to other consumers; on the
\* return side the exchanger flow plus the return flow coming in equals
\* M_return and the flow going out; at every producer M_prod_tot is the sum
\* of the flows of its technologies.
C11_MassConservation ==
    /\ asg.kind = "supply" =>
            SumOver(asg.M_linePC, model.i)
                + SumOver(asg.M_lineCC_in, model.o \ {asg.j})
            = asg.M_hx + SumOver(asg.M_lineCC_out, model.o \ {asg.j})
    /\ asg.kind = "return" =>
            /\ asg.M_return = asg.M_hx
                    + SumOver(asg.M_lineCC_in, model.o \ {asg.j})
            /\ asg.M_return = SumOver(asg.M_lineCP, model.i)
                    + SumOver(asg.M_lineCC_out, model.o \ {asg.j})
    /\ asg.kind = "producer" =>
            asg.M_prod_tot = SumOver(asg.M_prod, model.k)

C11_Witness ==
    /\ solver.status = "ok"
    /\ asg.kind = "supply"
    /\ asg.M_hx > 0
    /\ SumOver(asg.M_lineCC_out, model.o \ {asg.j}) > 0
    /\ SumOver(asg.M_linePC, model.i) = asg.M_supply

\* C15: in every assignment satisfying the constraints, the external diameter
\* of a pipe of any of the four families is its internal diameter plus
\* tk_pipe plus tk_insul.
C15_DoutGeometry ==
    /\ asg.kind = "pipe" =>
            asg.Dout = asg.Dint + model.tk_pipe + model.tk_insul
    /\ pc = "assembled" =>
            \A family \in Families : \A index \in PipeIndex(model, family) :
                \A a \in PipeSolutions(model, family, index) :
                    a.Dout = a.Dint + model.tk_pipe + model.tk_insul

C15_Witness ==
    /\ solver.status = "ok"
    /\ asg.kind = "pipe"
    /\ asg.family = "CC_return"
    /\ asg.Dout = asg.Dint + model.tk_pipe + model.tk_insul
    /\ asg.Dout = model.Dint_max

\* C12: in every assignment satisfying the constraints, the duty of the
\* exchanger of every consumer is the demand H_req, and it equals both
\* M_hx * Cp * (T_hx_in - T_hx_out) and A_hx * K_hx * DTLM.
C12_DemandSatisfied ==
    /\ asg.kind = "exchanger" =>
        /\ asg.H_hx = model.H_req[asg.j]
        /\ asg.H_hx = asg.M_hx * model.Cp * (asg.T_hx_in - asg.T_hx_out)
        /\ asg.H_hx = asg.A_hx * model.K_hx * asg.DTLM
    /\ pc = "assembled" =>
        \A a \in ExchangerSolutions(model) :
            /\ a.H_hx = model.H_req[a.j]
            /\ a.H_hx = a.M_hx * model.Cp * (a.T_hx_in - a.T_hx_out)
            /\ a.H_hx = a.A_hx * model.K_hx * a.DTLM

C12_Witness ==
    /\ solver.status = "ok"
    /\ asg.kind = "exchanger"
    /\ model.H_req[asg.j] > 0
    /\ asg.H_hx = model.H_req[asg.j]
    /\ asg.M_hx > 0
    /\ asg.A_hx > 0

\* C13: at a consumer without demand (H_req = 0) the exchanger flow Vars
\* M_hx, M_supply and M_return have both bounds 0, the Vars DT1, DT2 and
\* DTLM are pinned to 0, and every solved assignment has M_hx, DT1, DT2 and
\* DTLM equal to 0 there.
C13_DemandFreePinned ==
    /\ model.built =>
            \A j \in model.j :
                model.H_req[j] = 0 =>
                    \A v \in {"M_hx", "M_supply", "M_return", "DT1", "DT2", "DTLM"} :
                        ExchangerBounds(model, j)[v] = <<0, 0>>
    /\ (asg.kind = "exchanger" /\ model.H_req[asg.j] = 0) =>
            /\ asg.M_hx = 0
            /\ asg.DT1 = 0
            /\ asg.DT2 = 0
            /\ asg.DTLM = 0

\* C14: in every assignment satisfying the constraints, at every consumer
\* DT1 = T_hx_in - T_req_out and DT2 = T_hx_out - T_req_in, and both are at
\* least T_hx_pinch.
C14_PinchFeasible ==
    /\ asg.kind = "exchanger" =>
        /\ asg.DT1 = asg.T_hx_in - model.T_req_out[asg.j]
        /\ asg.DT2 = asg.T_hx_out - model.T_req_in[asg.j]
        /\ asg.DT1 >= model.T_hx_pinch
        /\ asg.DT2 >= model.T_hx_pinch
    /\ pc = "assembled" =>
        \A a \in ExchangerSolutions(model) :
            /\ a.DT1 = a.T_hx_in - model.T_req_out[a.j]
            /\ a.DT2 = a.T_hx_out - model.T_req_in[a.j]
            /\ a.DT1 >= model.T_hx_pinch
            /\ a.DT2 >= model.T_hx_pinch

C14_Witness ==
    /\ solver.status = "ok"
    /\ asg.kind = "exchanger"
    /\ asg.DT1 > model.T_hx_pinch
    /\ asg.DT1 = asg.T_hx_in - model.T_req_out[asg.j]
    /\ asg.T_hx_in = model.T_init_max

\* C16: a model assembled from a general_parameters mapping that holds only
\* some (or none) of the keys of DEFAULT_PARAMETERS is built, and uses for
\* every key of the default table the mapping's value when it has the key
\* and the default value otherwise.
C16_DefaultsFillOverrides ==
    (/\ entry = "model"
     /\ pc \notin {"idle", "defined"}
     /\ BindArguments(problem) = NoError
     /\ problem.technologies # EmptyDict
     /\ problem.consumption # EmptyDict
     /\ DOMAIN problem.general_parameters \subseteq DOMAIN DEFAULT_PARAMETERS)
    => /\ error.type # "KeyError"
       /\ model.built
       /\ \A key \in DOMAIN DEFAULT_PARAMETERS :
            model[key] = IF key \in DOMAIN problem.general_parameters
                         THEN problem.general_parameters[key]
                         ELSE DEFAULT_PARAMETERS[key]

\* C17: assembling a model without technologies or without consumers raises
\* an error during assembly, and the solver is never called.
C17_EmptySetsFailAssembly ==
    (/\ entry = "model"
     /\ pc \notin {"idle", "defined"}
     /\ BindArguments(problem) = NoError
     /\ (problem.technologies = EmptyDict \/ problem.consumption = EmptyDict))
    => /\ pc = "raised"
       /\ error # NoError
       /\ error.stage = "assemble"
       /\ ~model.built
       /\ trace = <<"assemble">>
       /\ solverCalls = 0
       /\ solver = NoSolver

C17_Witness ==
    /\ entry = "model"
    /\ pc = "raised"
    /\ error.type = "ValueError"
    /\ error.stage = "assemble"
    /\ BindArguments(problem) = NoError
    /\ problem.technologies # EmptyDict
    /\ problem.consumption = EmptyDict
    /\ solverCalls = 0

\* C18: when two production nodes of an input each declare a technology of
\* the same name, the assembled model has two distinct technologies in its
\* index set k, each with the parameters its own node declares.
C18_TechnologyIdsCollisionFree ==
    (/\ entry = "json"
     /\ Len(trace) >= 2
     /\ Defined)
    => LET nodes == json_input.nodes.production
       IN  \A p \in DOMAIN nodes, q \in DOMAIN nodes :
            \A name \in (DOMAIN nodes[p].technologies)
                            \cap (DOMAIN nodes[q].technologies) :
                p # q =>
                    /\ model.built
                    /\ \E kp \in model.k, kq \in model.k :
                        /\ kp # kq
                        /\ model.Eff[kp] = nodes[p].technologies[name].efficiency
                        /\ model.Eff[kq] = nodes[q].technologies[name].efficiency

\* C19: whenever a solve has succeeded, the result carries global indicators
\* with total_capex = production install cost + exchanger cost + network
\* cost and total_cost = total_capex + total_opex.
C19_IndicatorsConsistent ==
    (entry \in {"json", "model"} /\ pc = "returned" /\ solver.status = "ok")
    => /\ "solution" \in DOMAIN result
       /\ "global_indicators" \in DOMAIN result.solution
       /\ LET g == result.solution.global_indicators
          IN  /\ g.total_capex = g.production_install_cost + g.exchanger_cost
                                    + g.network_cost
              /\ g.total_cost = g.total_capex + g.total_opex

\* C20: the objective the solver minimises is C_pump + C_heat + C_Hinst +
\* C_hx + C_line_tot, and in every assignment satisfying the constraints
\* C_line_tot = C_pipe + C_tr, so that the objective is the sum of the
\* pumping, heat, installed-power, exchanger, pipe and trench costs.
C20_ObjectiveIsCostSum ==
    asg.kind = "cost" =>
        /\ objective_rule(model, asg)
            = asg.C_pump + asg.C_heat + asg.C_Hinst + asg.C_hx + asg.C_line_tot
        /\ asg.C_line_tot = asg.C_pipe + asg.C_tr
        /\ objective_rule(model, asg)
            = asg.C_pump + asg.C_heat + asg.C_Hinst + asg.C_hx
              + asg.C_pipe + asg.C_tr

C20_Witness ==
    /\ solver.status = "ok"
    /\ asg.kind = "cost"
    /\ asg.C_pipe > 0
    /\ asg.C_tr > 0
    /\ asg.C_pump > 0
    /\ asg.C_hx = 0
    /\ objective_rule(model, asg) = asg.C_pump + asg.C_heat + asg.C_Hinst
                                    + asg.C_pipe + asg.C_tr

\* C30: after _define_problem, for every link list of the input, the entry
\* (c, c) of cons_cons_pipes is 0 for every consumer c: no consumer is given
\* a pipe to itself.
C30_NoSelfPipe ==
    Defined =>
        \A c \in DOMAIN problem.consumption :
            problem.configuration.cons_cons_pipes[<<c, c>>] = 0

\* C22: every big-M constant of an assembled model is at least 1000 times
\* the largest value of the quantity it relaxes: M_bigM against M_max,
\* H_inst_bigM against the total demand, T_bigM against the largest
\* admissible temperature T_init_max.
C22_BigMScaling ==
    model.built =>
        /\ model.M_bigM >= 1000 * model.M_max
        /\ model.H_inst_bigM >= 1000 * SumOver(model.H_req, model.j)
        /\ model.T_bigM >= 1000 * model.T_init_max

\* C26: in an assembled model every internal diameter within the bounds of
\* the Dint Vars has an external diameter within the bounds of the Dout Vars
\* that satisfies Dout = Dint + tk_pipe + tk_insul.
C26_EveryDintAdmissible ==
    model.built =>
        \A Dint \in Dint_bounds(model) :
            \E Dout \in Dout_bounds(model) :
                Def_Dout_rule(model, [Dint |-> Dint, Dout |-> Dout])

\* C25: for a pipe of any family whose existence flag is 1, every assignment
\* satisfying the constraints has its velocity in [V_min, V_max] and a mass
\* flow of at least V_min * rho * pi * Dint_min^2 / 4, which is positive,
\* also when the consumer the pipe leads to has no demand.
C25_ExistingPipeCarriesFlow ==
    /\ (asg.kind = "pipe" /\ Y_line(model, asg.family)[asg.index] = 1) =>
            /\ asg.V \in model.V_min .. model.V_max
            /\ asg.M >= SectionFlow(model, model.V_min, model.Dint_min)
            /\ asg.M > 0
    /\ pc = "assembled" =>
            \A family \in Families : \A index \in PipeIndex(model, family) :
                Y_line(model, family)[index] = 1 =>
                    \A a \in PipeSolutions(model, family, index) :
                        /\ a.V \in model.V_min .. model.V_max
                        /\ a.M >= SectionFlow(model, model.V_min, model.Dint_min)
                        /\ a.M > 0

C25_Witness ==
    /\ solver.status = "ok"
    /\ asg.kind = "pipe"
    /\ asg.family = "PC"
    /\ Y_line(model, asg.family)[asg.index] = 1
    /\ model.H_req[asg.index[2]] = 0
    /\ asg.V = model.V_min
    /\ asg.M = SectionFlow(model, model.V_min, model.Dint_min)
    /\ asg.M > 0

\* C24: in every assignment satisfying the mass balances, the sum over the
\* producers of M_prod_tot equals the sum over the consumers of M_hx, and for
\* every producer the flow leaving on its pipes to the consumers equals the
\* flow coming back on the pipes from the consumers.
C24_NetworkFlowConserved ==
    asg.kind = "network" =>
        /\ SumOver(asg.M_prod_tot, model.i) = SumOver(asg.M_hx, model.j)
        /\ \A i \in model.i :
                SumOver([j \in model.j |-> asg.M_linePC[<<i, j>>]], model.j)
                = SumOver([j \in model.j |-> asg.M_lineCP[<<j, i>>]], model.j)

C24_Witness ==
    /\ solver.status = "ok"
    /\ asg.kind = "network"
    /\ \E j \in model.j, o \in model.o :
            /\ j # o
            /\ asg.M_lineCC_parallel[<<j, o>>] > 0
            /\ asg.M_hx[j] > 0
            /\ asg.M_hx[o] > 0
    /\ \E i \in model.i : \E j \in model.j :
            /\ asg.M_linePC[<<i, j>>] > 0
            /\ asg.M_lineCP[<<j, i>>] = 0
    /\ SumOver(asg.M_prod_tot, model.i) = SumOver(asg.M_hx, model.j)

C21_InstalledPowerSizing ==
    /\ (asg.kind = "unit" /\ model.Y_P[<<asg.i, asg.k>>] = 1) =>
            asg.H_inst * model.Eff[asg.k]
                = 100 * (asg.M_prod * model.Cp
                         * (asg.T_prod_out - asg.T_prod_in))
    /\ pc = "assembled" =>
            \A i \in model.i, k \in model.k :
                model.Y_P[<<i, k>>] = 0 =>
                    \A a \in [i : {i}, k : {k}, H_inst : H_inst_bounds(model),
                              M_prod : {M \in M_line_bounds(model) :
                                            Ex_M_max_rule(M, model.M_max,
                                                          model.Y_P[<<i, k>>])},
                              T_prod_out : {model.T_init_min, model.T_init_max},
                              T_prod_in : {model.T_init_min, model.T_init_max}] :
                        /\ bilan_H_inst_rule_bigM1(model, a)
                        /\ bilan_H_inst_rule_bigM2(model, a)

C21_Witness ==
    /\ solver.status = "ok"
    /\ asg.kind = "unit"
    /\ model.Y_P[<<asg.i, asg.k>>] = 1
    /\ \E k \in model.k : model.Y_P[<<asg.i, k>>] = 0
    /\ asg.M_prod > 0
    /\ asg.H_inst > 0
    /\ asg.H_inst < model.H_inst_max
    /\ asg.T_prod_out > asg.T_prod_in

\* C28: in every assignment within the bounds that satisfies the
\* constraints, for every producer i and technology k, T_prod_out[i, k] is at
\* most T_prod_out_max[k] and T_prod_in[i, k] at least T_prod_in_min[k], also
\* when the technologies have different limits.
C28_TechnologyTemperatureLimits ==
    asg.kind = "unit" =>
        /\ asg.T_prod_out <= model.T_prod_out_max[asg.k]
        /\ asg.T_prod_in >= model.T_prod_in_min[asg.k]

\* C29: in an assembled model, for a link of any family whose existence flag
\* is 0, the temperature big-M inequality between the node temperature and
\* the inlet temperature of the pipe holds for every pair of temperatures
\* within the bounds [T_init_min, T_init_max] of the temperature Vars.
C29_TemperatureBigMVacuous ==
    model.built =>
        \A family \in Families : \A index \in PipeIndex(model, family) :
            Y_line(model, family)[index] = 0 =>
                \A T_node, T_line \in {model.T_init_min, model.T_init_max} :
                    bilan_T_rule_bigM(model, T_node - T_line,
                                      Y_line(model, family)[index])

\* C23: when every existence flag of the model is 0 or 1 and every Y_P[i, k]
\* is 1, every assignment satisfying the constraints has the sum over the
\* producers and technologies of H_inst * Eff equal to the sum over the
\* consumers of H_req: the pipes lose no heat, so the heat produced is the
\* heat delivered.
C23_EnergyConserved ==
    (/\ asg.kind = "energy"
     /\ \A family \in Families : \A index \in PipeIndex(model, family) :
            Y_line(model, family)[index] \in {0, 1}
     /\ \A x \in model.i \X model.k : model.Y_P[x] = 1) =>
        SumOver([x \in model.i \X model.k |-> asg.H_inst[x] * model.Eff[x[2]]],
                model.i \X model.k)
        = 100 * SumOver(model.H_req, model.j)

C23_Witness ==
    /\ solver.status = "ok"
    /\ asg.kind = "energy"
    /\ \A x \in model.i \X model.k : model.Y_P[x] = 1
    /\ \A j \in model.j : model.H_req[j] > 0 /\ asg.M_hx[j] > 0
    /\ \E x \in model.j \X model.o :
            x[1] # x[2] /\ asg.M_lineCC_parallel[x] > 0
    /\ \E x \in model.i \X model.k : asg.H_inst[x] > 0
    /\ SumOver([x \in model.i \X model.k |-> asg.H_inst[x] * model.Eff[x[2]]],
               model.i \X model.k)
       = 100 * SumOver(model.H_req, model.j)

====
